---- MODULE Spec2Model ----
(***************************************************************************)
(* The trivia REST backend (backend/flaskr/__init__.py) as a state         *)
(* machine.  The state is the relational store (the Question and Category  *)
(* tables and the id sequence of Question), the last request with its      *)
(* response, and the quiz client that drives POST /quizzes.  Each route    *)
(* handler is one action; a handler runs to completion (one request is     *)
(* served synchronously).                                                  *)
(***************************************************************************)
EXTENDS Integers, Sequences, FiniteSets, TLC

VARIABLES
    questions,    \* the Question table: a set of rows
    categories,   \* the Category table: a set of rows (read-only)
    nextId,       \* the next value of the Question id sequence
    req,          \* the last request: [op |-> ..., ...]
    resp,         \* the response to it: [status |-> ..., ...]
    quiz,         \* the quiz client: [state, category, previous, calls]
    deletes       \* the DELETE requests served concurrently, one record each

vars == <<questions, categories, nextId, req, resp, quiz, deletes>>

-----------------------------------------------------------------------------
(* Bounds of the model.                                                    *)

\* Spec / SpecQuiz: the seeded Question table holds MaxSeed rows.
MaxSeed == 2
\* Spec / SpecQuiz: at most MaxCreate questions are created on top of the seed.
MaxCreate == 1
\* SpecPage: the seeded Question table holds 0..MaxPageSeed rows.
MaxPageSeed == 21
\* SpecPage: at most MaxPageCreate questions are created on top of the seed.
MaxPageCreate == 1
\* SpecPage: DELETE requests name the ids 1..MaxPageDelete.
MaxPageDelete == 2
\* page numbers requested are 1..MaxPage
MaxPage == 4
\* SpecDelete: MaxDeleters DELETE requests are served concurrently.
MaxDeleters == 2

-----------------------------------------------------------------------------
(* JSON values.  A value carries its type t, so that null, a number and a  *)
(* string are never confused: a number is in n, a string in s, as the      *)
(* sequence of its characters.                                             *)

JNull == [t |-> "null", n |-> 0, s |-> <<>>]
JInt(n) == [t |-> "int", n |-> n, s |-> <<>>]
JStr(s) == [t |-> "str", n |-> 0, s |-> s]

IsNull(x) == x.t = "null"
IsInt(x) == x.t = "int"
IsStr(x) == x.t = "str"

\* a formatted question (a JSON object), as against null
IsQuestion(x) == "id" \in DOMAIN x

\* Python truthiness of a JSON value: None, 0 and "" are falsy.
Truthy(x) ==
    CASE IsNull(x) -> FALSE
      [] IsInt(x) -> x.n # 0
      [] IsStr(x) -> x.s # <<>>

\* lower(): the characters of the model's alphabet
Lower(c) ==
    CASE c = "A" -> "a"
      [] c = "B" -> "b"
      [] OTHER -> c

LowerStr(s) == [i \in 1..Len(s) |-> Lower(s[i])]

Digit(d) ==
    CASE d = 0 -> "0" [] d = 1 -> "1" [] d = 2 -> "2" [] d = 3 -> "3"
      [] d = 4 -> "4" [] d = 5 -> "5" [] d = 6 -> "6" [] d = 7 -> "7"
      [] d = 8 -> "8" [] d = 9 -> "9"

\* str(n) of a non-negative integer: its decimal digits
RECURSIVE str(_)
str(n) == IF n < 10 THEN <<Digit(n)>> ELSE Append(str(n \div 10), Digit(n % 10))

-----------------------------------------------------------------------------
(* The store (models.py: the Question and Category tables).  Question:     *)
(* id integer primary key, question and answer strings, category and       *)
(* difficulty integers.  The columns carry no NOT NULL constraint and the  *)
(* category no enforced foreign key.                                       *)

\* Question(question=..., answer=..., category=..., difficulty=...)
Question(id, question, answer, category, difficulty) ==
    [id |-> id, question |-> question, answer |-> answer,
     category |-> category, difficulty |-> difficulty]

\* Question.format(): the row as the JSON object of the responses
format(q) ==
    [id |-> q.id, question |-> q.question, answer |-> q.answer,
     category |-> q.category, difficulty |-> q.difficulty]

\* Whether the store takes the row: a string column takes a string or NULL,
\* an integer column an integer or NULL; a non-numeric string in an integer
\* column is the type mismatch the store rejects.
StoreAccepts(q) ==
    /\ IsStr(q.question) \/ IsNull(q.question)
    /\ IsStr(q.answer) \/ IsNull(q.answer)
    /\ IsInt(q.category) \/ IsNull(q.category)
    /\ IsInt(q.difficulty) \/ IsNull(q.difficulty)

\* Question.query.get(id): the rows with that primary key (none: None)
QuestionGet(id) == {q \in questions : q.id = id}

\* Category.query.get(id)
CategoryGet(id) == {c \in categories : c.id = id}

\* Question.query.order_by(Question.id).all(), as a sequence
RECURSIVE OrderById(_)
OrderById(rows) ==
    IF rows = {} THEN <<>>
    ELSE LET first == CHOOSE q \in rows : \A r \in rows : q.id <= r.id
         IN  <<first>> \o OrderById(rows \ {first})

\* Category.query.order_by(Category.id).all() as the dict {id: type}
categories_dict == {<<c.id, c.type>> : c \in categories}

\* The seed data of the two tables.
SeedTexts == << <<"A", "b">>, <<"b", "a">>, <<"B">> >>

SeedQuestion(i) ==
    Question(i, JStr(SeedTexts[((i - 1) % 3) + 1]), JStr(<<"x">>),
             JInt(((i - 1) % 2) + 1), JInt(1))

SeedQuestions(n) == {SeedQuestion(i) : i \in 1..n}

SeedCategories == {[id |-> 1, type |-> "Science"], [id |-> 2, type |-> "Art"]}

-----------------------------------------------------------------------------
(* The error handlers: abort(code) ends the request with the envelope.     *)

error_messages(code) ==
    CASE code = 400 -> "Bad request"
      [] code = 404 -> "Resource not found"
      [] code = 422 -> "Unprocessable entity"
      [] code = 500 -> "Internal server error"

create_error_response(code) ==
    [status |-> code, success |-> FALSE, error |-> code,
     message |-> error_messages(code)]

-----------------------------------------------------------------------------
(* DELETE /questions/<question_id>                                         *)

\* Mutant of delete_question_response: no lookup, every DELETE answers 200.
delete_question_response_no_lookup(question_id) ==
    [status |-> 200, success |-> TRUE, deleted |-> question_id]

delete_question_response(question_id) ==
    IF QuestionGet(question_id) = {}
    THEN create_error_response(404)
    ELSE [status |-> 200, success |-> TRUE, deleted |-> question_id]

delete_question(question_id) ==
    /\ req' = [op |-> "delete_question", question_id |-> question_id]
    /\ resp' = delete_question_response(question_id)
    /\ questions' = questions \ QuestionGet(question_id)
    /\ UNCHANGED <<categories, nextId, quiz, deletes>>

-----------------------------------------------------------------------------
(* POST /questions                                                         *)

required_fields == {"question", "answer", "category", "difficulty"}

AllRequiredPresent(data) == \A field \in required_fields : field \in DOMAIN data

NewQuestion(data) ==
    Question(nextId, data["question"], data["answer"], data["category"],
             data["difficulty"])

\* Mutant of create_question_response: no check of the keys, a missing key
\* is a KeyError when the Question is built (500).
create_question_response_key_error(data) ==
    IF ~AllRequiredPresent(data)
    THEN create_error_response(500)
    ELSE IF StoreAccepts(NewQuestion(data))
         THEN [status |-> 201, success |-> TRUE, created |-> nextId,
               total_questions |-> Cardinality(questions \cup {NewQuestion(data)})]
         ELSE create_error_response(422)

\* Mutant of create_question_response: the insert is outside the try block,
\* its failure is an unhandled exception (500).
create_question_response_uncaught(data) ==
    IF ~AllRequiredPresent(data)
    THEN create_error_response(400)
    ELSE IF StoreAccepts(NewQuestion(data))
         THEN [status |-> 201, success |-> TRUE, created |-> nextId,
               total_questions |-> Cardinality(questions \cup {NewQuestion(data)})]
         ELSE create_error_response(500)

\* Mutant of create_question_response: the questions are counted before the
\* insert.
create_question_response_count_before(data) ==
    IF ~AllRequiredPresent(data)
    THEN create_error_response(400)
    ELSE IF StoreAccepts(NewQuestion(data))
         THEN [status |-> 201, success |-> TRUE, created |-> nextId,
               total_questions |-> Cardinality(questions)]
         ELSE create_error_response(422)

\* try: new_question.insert(), 201 with the new id and the count after the
\* insert; except: abort(422)
create_question_response(data) ==
    IF ~AllRequiredPresent(data)
    THEN create_error_response(400)
    ELSE IF StoreAccepts(NewQuestion(data))
         THEN [status |-> 201, success |-> TRUE, created |-> nextId,
               total_questions |-> Cardinality(questions \cup {NewQuestion(data)})]
         ELSE create_error_response(422)

create_question(data) ==
    /\ req' = [op |-> "create_question", data |-> data]
    /\ resp' = create_question_response(data)
    /\ IF AllRequiredPresent(data) /\ StoreAccepts(NewQuestion(data))
       THEN /\ questions' = questions \cup {NewQuestion(data)}
            /\ nextId' = nextId + 1
       ELSE UNCHANGED <<questions, nextId>>
    /\ UNCHANGED <<categories, quiz, deletes>>

-----------------------------------------------------------------------------
(* GET /categories                                                         *)

get_categories_response ==
    IF Cardinality(categories_dict) = 0
    THEN create_error_response(404)
    ELSE [status |-> 200, success |-> TRUE, categories |-> categories_dict]

get_categories ==
    /\ req' = [op |-> "get_categories"]
    /\ resp' = get_categories_response
    /\ UNCHANGED <<questions, categories, nextId, quiz, deletes>>

-----------------------------------------------------------------------------
(* GET /questions?page=N                                                   *)

PAGE_SIZE == 10

\* request.args.get("page", 1, type=int): the default when the argument is
\* absent or no integer
PageArg(arg) == IF IsInt(arg) THEN arg.n ELSE 1

\* Query.paginate(page, per_page, error_out=False): a page below 1 is page
\* 1; the items are the rows at offset (page - 1) * per_page, at most
\* per_page of them; total is the count of the whole query.
paginate(rows, page, per_page) ==
    LET p == IF page < 1 THEN 1 ELSE page
        all == OrderById(rows)
        from == (p - 1) * per_page + 1
        to == IF p * per_page < Len(all) THEN p * per_page ELSE Len(all)
    IN  [items |-> SubSeq(all, from, to), total |-> Len(all)]

\* Mutant of get_questions_response: total_questions is the length of the
\* page.
get_questions_response_page_total(arg) ==
    LET page == PageArg(arg)
        paged == paginate(questions, page, PAGE_SIZE)
    IN  IF paged.items = <<>>
        THEN create_error_response(404)
        ELSE [status |-> 200, success |-> TRUE,
              questions |-> [i \in 1..Len(paged.items) |-> format(paged.items[i])],
              total_questions |-> Len(paged.items),
              categories |-> categories_dict,
              current_category |-> JNull]

get_questions_response(arg) ==
    LET page == PageArg(arg)
        paged == paginate(questions, page, PAGE_SIZE)
    IN  IF paged.items = <<>>
        THEN create_error_response(404)
        ELSE [status |-> 200, success |-> TRUE,
              questions |-> [i \in 1..Len(paged.items) |-> format(paged.items[i])],
              total_questions |-> paged.total,
              categories |-> categories_dict,
              current_category |-> JNull]

get_questions(arg) ==
    /\ req' = [op |-> "get_questions", page |-> arg]
    /\ resp' = get_questions_response(arg)
    /\ UNCHANGED <<questions, categories, nextId, quiz, deletes>>

-----------------------------------------------------------------------------
(* POST /questions/search                                                  *)

\* f"{search_term}": a string as it is, a number by its digits
FormatTerm(x) == IF IsInt(x) THEN str(x.n) ELSE x.s

\* SQL LIKE on character sequences: % matches any run of characters, _ any
\* one character, and a backslash makes the next pattern character literal.
RECURSIVE Like(_, _)
Like(s, p) ==
    IF p = <<>> THEN s = <<>>
    ELSE IF Head(p) = "%"
         THEN Like(s, Tail(p)) \/ (s # <<>> /\ Like(Tail(s), p))
    ELSE IF Head(p) = "_"
         THEN s # <<>> /\ Like(Tail(s), Tail(p))
    ELSE IF Head(p) = "\\" /\ Len(p) >= 2
         THEN s # <<>> /\ Head(s) = p[2] /\ Like(Tail(s), Tail(Tail(p)))
    ELSE s # <<>> /\ Head(s) = Head(p) /\ Like(Tail(s), Tail(p))

\* column.ilike(pattern): LIKE on the lower-cased operands; NULL matches
\* nothing
ilike(column, pattern) ==
    IsStr(column) /\ Like(LowerStr(column.s), LowerStr(pattern))

search_questions_response(data) ==
    LET search_term == IF "searchTerm" \in DOMAIN data THEN data["searchTerm"] ELSE JNull
    IN  IF ~Truthy(search_term)
        THEN create_error_response(400)
        ELSE LET found == {q \in questions :
                              ilike(q.question, <<"%">> \o FormatTerm(search_term) \o <<"%">>)}
                 formatted_questions == {format(q) : q \in found}
             IN  [status |-> 200, success |-> TRUE,
                  questions |-> formatted_questions,
                  total_questions |-> Cardinality(formatted_questions),
                  current_category |-> JNull]

search_questions(data) ==
    /\ req' = [op |-> "search_questions", data |-> data]
    /\ resp' = search_questions_response(data)
    /\ UNCHANGED <<questions, categories, nextId, quiz, deletes>>

-----------------------------------------------------------------------------
(* GET /categories/<category_id>/questions                                 *)

\* Question.category == <string>: the column against the string form of an
\* id; NULL equals nothing
CategoryEquals(column, s) == IsInt(column) /\ str(column.n) = s

\* try: ... except: abort(code).  The bare except catches whatever the body
\* raises, the HTTPException of an abort() included.
Raise(code) == [raised |-> TRUE, code |-> code]

TryExcept(body, code) ==
    IF "raised" \in DOMAIN body THEN create_error_response(code) ELSE body

get_questions_by_category_response(category_id) ==
    LET found == {q \in questions : CategoryEquals(q.category, str(category_id))}
    IN  IF Cardinality(found) = 0
        THEN create_error_response(404)
        ELSE TryExcept(
                LET formatted_questions == {format(q) : q \in found}
                    category == CategoryGet(category_id)
                IN  IF category = {}
                    THEN Raise(404)
                    ELSE [status |-> 200, success |-> TRUE,
                          questions |-> formatted_questions,
                          total_questions |-> Cardinality(formatted_questions),
                          current_category |-> JStr((CHOOSE c \in category : TRUE).type)],
                500)

get_questions_by_category(category_id) ==
    /\ req' = [op |-> "get_questions_by_category", category_id |-> category_id]
    /\ resp' = get_questions_by_category_response(category_id)
    /\ UNCHANGED <<questions, categories, nextId, quiz, deletes>>

-----------------------------------------------------------------------------
(* POST /quizzes                                                           *)

\* Mutant of NotIn: only the last of the previous questions is excluded.
NotInLast(id, previous_questions) ==
    previous_questions = <<>> \/ previous_questions[Len(previous_questions)] # id

\* ~Question.id.in_(previous_questions)
NotIn(id, previous_questions) ==
    \A i \in 1..Len(previous_questions) : previous_questions[i] # id

\* Mutant of available_questions: id 0 is taken for a category like any
\* other.
available_questions_literal_zero(previous_questions, quiz_category) ==
    IF quiz_category.given
    THEN {q \in questions :
             /\ CategoryEquals(q.category, str(quiz_category.id))
             /\ NotIn(q.id, previous_questions)}
    ELSE {q \in questions : NotIn(q.id, previous_questions)}

available_questions(previous_questions, quiz_category) ==
    IF quiz_category.given
    THEN LET category_id == quiz_category.id
         IN  IF category_id = 0
             THEN {q \in questions : NotIn(q.id, previous_questions)}
             ELSE {q \in questions :
                      /\ CategoryEquals(q.category, str(category_id))
                      /\ NotIn(q.id, previous_questions)}
    ELSE {q \in questions : NotIn(q.id, previous_questions)}

\* The responses random.choice allows; nothing in the try block raises for
\* a well-formed body, so the except branch (422) is not taken.
play_quiz_responses(body) ==
    LET available == available_questions(body.previous_questions, body.quiz_category)
    IN  IF available = {}
        THEN {[status |-> 200, success |-> TRUE, question |-> JNull]}
        ELSE {[status |-> 200, success |-> TRUE, question |-> format(random_question)]
                 : random_question \in available}

play_quiz(body) ==
    /\ req' = [op |-> "play_quiz", body |-> body]
    /\ resp' \in play_quiz_responses(body)
    /\ UNCHANGED <<questions, categories, nextId, quiz, deletes>>

-----------------------------------------------------------------------------
(* DELETE /questions/<question_id>, served concurrently: every request has *)
(* its own session, and its lookup (Question.query.get) and its            *)
(* question.delete() are separate steps that other requests interleave.    *)

Deleters == 1..MaxDeleters

IdleDelete == [pc |-> "idle", question_id |-> 0, status |-> 0]

NoDeletes == [r \in Deleters |-> IdleDelete]

\* question = Question.query.get(question_id); if question is None:
\* abort(404)
DeleteLookup(r, question_id) ==
    /\ deletes[r].pc = "idle"
    /\ deletes' = [deletes EXCEPT ![r] =
                      IF QuestionGet(question_id) = {}
                      THEN [pc |-> "done", question_id |-> question_id, status |-> 404]
                      ELSE [pc |-> "found", question_id |-> question_id, status |-> 0]]
    /\ UNCHANGED <<questions, categories, nextId, req, resp, quiz>>

\* What question.delete() does in a session that loaded the row: the row
\* is deleted; when another session deleted it meanwhile, the DELETE
\* matches no row, which the mapper lets pass or raises as stale data.
DeleteOutcomes(question_id) ==
    IF QuestionGet(question_id) # {} THEN {"deleted"} ELSE {"deleted", "raised"}

\* Mutant of delete_status: no except branch, the failure of delete() is an
\* unhandled exception (500).
delete_status_uncaught(outcome) == IF outcome = "raised" THEN 500 ELSE 200

\* try: question.delete(), 200 with the deleted id; except: abort(422)
delete_status(outcome) == IF outcome = "raised" THEN 422 ELSE 200

DeleteCommit(r) ==
    /\ deletes[r].pc = "found"
    /\ \E outcome \in DeleteOutcomes(deletes[r].question_id) :
          deletes' = [deletes EXCEPT ![r].pc = "done",
                                     ![r].status = delete_status(outcome)]
    /\ questions' = questions \ QuestionGet(deletes[r].question_id)
    /\ UNCHANGED <<categories, nextId, req, resp, quiz>>

-----------------------------------------------------------------------------
(* The requests of the model.                                              *)

FieldValues(field) ==
    CASE field = "question" -> {JStr(<<"a", "B">>), JNull}
      [] field = "answer" -> {JStr(<<"x">>), JNull}
      [] field = "category" -> {JInt(1), JInt(0), JInt(3), JStr(<<"x">>), JNull}
      [] field = "difficulty" -> {JInt(1), JStr(<<"x">>), JNull}

BaseBody ==
    [question |-> JStr(<<"a", "B">>), answer |-> JStr(<<"x">>),
     category |-> JInt(1), difficulty |-> JInt(1)]

AllValues == UNION {FieldValues(f) : f \in required_fields}

AllBodies ==
    UNION { {d \in [K -> AllValues] : \A f \in K : d[f] \in FieldValues(f)}
            : K \in SUBSET required_fields }

Deviations(data) == {f \in DOMAIN data : data[f] # BaseBody[f]}

\* The bodies of the model: any subset of the keys, and at most one value
\* that differs from BaseBody's.
Bodies == {d \in AllBodies : Cardinality(Deviations(d)) <= 1}

NoQuizCategory == [given |-> FALSE, id |-> 0]

IdleQuiz == [state |-> "idle", category |-> NoQuizCategory, previous |-> <<>>, calls |-> 0]

-----------------------------------------------------------------------------
(* The quiz client (the play view of the frontend): it starts with         *)
(* previous_questions = [] and a chosen category, posts to /quizzes,       *)
(* appends the id of the question it gets and stops at question = null.    *)
(* Entering and leaving the play view, it has no request outstanding.      *)

NoRequest == [op |-> "none"]

NoResponse == [status |-> 0]

QuizStart(quiz_category) ==
    /\ quiz.state = "idle"
    /\ quiz' = [state |-> "playing", category |-> quiz_category,
                previous |-> <<>>, calls |-> 0]
    /\ req' = NoRequest
    /\ resp' = NoResponse
    /\ UNCHANGED <<questions, categories, nextId, deletes>>

QuizRound ==
    /\ quiz.state = "playing"
    /\ LET body == [previous_questions |-> quiz.previous,
                    quiz_category |-> quiz.category]
       IN  /\ req' = [op |-> "play_quiz", body |-> body]
           /\ resp' \in play_quiz_responses(body)
    /\ quiz' = IF IsQuestion(resp'.question)
               THEN [quiz EXCEPT !.previous = Append(@, resp'.question.id),
                                 !.calls = @ + 1]
               ELSE [quiz EXCEPT !.state = "done", !.calls = @ + 1]
    /\ UNCHANGED <<questions, categories, nextId, deletes>>

\* the client leaves the play view
QuizReset ==
    /\ quiz.state = "done"
    /\ quiz' = IdleQuiz
    /\ req' = NoRequest
    /\ resp' = NoResponse
    /\ UNCHANGED <<questions, categories, nextId, deletes>>

-----------------------------------------------------------------------------
(* Spec: the routes over a small store.                                    *)

Init ==
    /\ questions = SeedQuestions(MaxSeed)
    /\ nextId = MaxSeed + 1
    /\ categories = SeedCategories
    /\ req = NoRequest
    /\ resp = NoResponse
    /\ quiz = IdleQuiz
    /\ deletes = NoDeletes

QuestionIds == 1..(MaxSeed + MaxCreate)

CategoryIds == 0..3

SearchTerms ==
    {JNull, JInt(0), JStr(<<>>), JStr(<<"a">>), JStr(<<"A", "B">>),
     JStr(<<"_">>), JStr(<<"%">>), JStr(<<"z">>)}

\* the bodies with and without the key searchTerm
SearchBodies == UNION {[K -> SearchTerms] : K \in SUBSET {"searchTerm"}}

Next ==
    \/ \E data \in Bodies : nextId <= MaxSeed + MaxCreate /\ create_question(data)
    \/ \E id \in QuestionIds \cup {MaxSeed + MaxCreate + 1} : delete_question(id)
    \/ get_categories
    \/ \E arg \in {JNull, JInt(0), JInt(1), JInt(2)} : get_questions(arg)
    \/ \E data \in SearchBodies : search_questions(data)
    \/ \E id \in CategoryIds : get_questions_by_category(id)

Spec == Init /\ [][Next]_vars

-----------------------------------------------------------------------------
(* SpecPage: the paginated listing over stores of up to three pages.  The  *)
(* seeded table holds the rows 1..n; the id sequence stands past           *)
(* MaxPageSeed.                                                            *)

InitPage ==
    /\ \E n \in 0..MaxPageSeed : questions = SeedQuestions(n)
    /\ nextId = MaxPageSeed + 1
    /\ categories = SeedCategories
    /\ req = NoRequest
    /\ resp = NoResponse
    /\ quiz = IdleQuiz
    /\ deletes = NoDeletes

PageBodies ==
    {d \in Bodies : /\ "question" \in DOMAIN d /\ "answer" \in DOMAIN d
                    /\ "difficulty" \in DOMAIN d
                    /\ Deviations(d) \subseteq {"category"}
                    /\ \A f \in DOMAIN d : d[f] \notin {JInt(0), JInt(3)}}

PageArgs == {JNull} \cup {JInt(p) : p \in 0..MaxPage}

NextPage ==
    \/ \E data \in PageBodies :
          nextId <= MaxPageSeed + MaxPageCreate /\ create_question(data)
    \/ \E id \in (1..MaxPageDelete) \cup {nextId - 1} : delete_question(id)
    \/ \E arg \in PageArgs : get_questions(arg)

SpecPage == InitPage /\ [][NextPage]_vars

-----------------------------------------------------------------------------
(* SpecQuiz: POST /quizzes, called with any body while the quiz client is  *)
(* idle and by the client's loop.  The questions are created and deleted   *)
(* only while no quiz is being played.  The client goes on posting until   *)
(* it gets question = null: weak fairness of QuizRound.                    *)

QuizCategories ==
    {NoQuizCategory} \cup {[given |-> TRUE, id |-> k] : k \in CategoryIds}

\* previous_questions: the lists of at most two ids, in ascending order
PreviousLists ==
    {<<>>} \cup {<<i>> : i \in QuestionIds}
           \cup {l \in QuestionIds \X QuestionIds : l[1] < l[2]}

QuizBodies ==
    {[previous_questions |-> p, quiz_category |-> c] :
        p \in PreviousLists, c \in QuizCategories}

QuizCreateBodies ==
    {d \in Bodies : AllRequiredPresent(d) /\ Deviations(d) \subseteq {"category"}
                    /\ d["category"] # JStr(<<"x">>)}

NextQuiz ==
    \/ \E data \in QuizCreateBodies :
          /\ quiz.state = "idle"
          /\ nextId <= MaxSeed + MaxCreate
          /\ create_question(data)
    \/ \E id \in QuestionIds : quiz.state = "idle" /\ delete_question(id)
    \/ \E body \in QuizBodies : quiz.state = "idle" /\ play_quiz(body)
    \/ \E c \in QuizCategories : QuizStart(c)
    \/ QuizRound
    \/ QuizReset

SpecQuiz == Init /\ [][NextQuiz]_vars /\ WF_vars(QuizRound)

-----------------------------------------------------------------------------
(* SpecDelete: DELETE requests for the seeded questions (and one id that   *)
(* was never stored) served concurrently, each request once, while         *)
(* questions are created.                                                  *)

DeleteCreateBodies == {BaseBody}

NextDelete ==
    \/ \E r \in Deleters, id \in 1..(MaxSeed + 1) : DeleteLookup(r, id)
    \/ \E r \in Deleters : DeleteCommit(r)
    \/ \E data \in DeleteCreateBodies :
          nextId <= MaxSeed + MaxCreate /\ create_question(data)

SpecDelete == Init /\ [][NextDelete]_vars

-----------------------------------------------------------------------------
(* The properties.                                                         *)

Ids(rows) == {q.id : q \in rows}

\* a question of the category with the integer id
HasCategory(q, id) == IsInt(q.category) /\ q.category.n = id

\* C1: GET /categories/{id}/questions answers 404 whenever no question has
\* the category id, and whenever no Category row has the id (also when
\* questions of that category are stored).
C1_CategoryNotFound ==
    req.op = "get_questions_by_category" =>
        LET id == req.category_id
        IN  (\/ ~\E q \in questions : HasCategory(q, id)
             \/ ~\E c \in categories : c.id = id)
            => resp.status = 404

\* The pool of a POST /quizzes body: the questions whose id is not in
\* previous_questions, of the category quiz_category.id alone when a
\* quiz_category with a nonzero id is given.
QuizPool(body) ==
    {q \in questions :
        /\ q.id \notin {body.previous_questions[i] : i \in DOMAIN body.previous_questions}
        /\ (body.quiz_category.given /\ body.quiz_category.id # 0)
              => HasCategory(q, body.quiz_category.id)}

\* C2: POST /quizzes answers 200; the question is null exactly when the pool
\* is empty, otherwise it is a member of the pool, and every member of the
\* pool is a possible answer.
C2_QuizDrawsFromPool ==
    req.op = "play_quiz" =>
        LET pool == QuizPool(req.body)
        IN  /\ resp.status = 200
            /\ ~IsQuestion(resp.question) <=> pool = {}
            /\ IsQuestion(resp.question) =>
                  \E q \in pool : resp.question = format(q)
            /\ \A q \in pool :
                  \E r \in play_quiz_responses(req.body) :
                      IsQuestion(r.question) /\ r.question = format(q)

\* id 0 draws from all categories although a question of category 0 is
\* stored: the question returned is of category 1
C2_Witness ==
    /\ req.op = "play_quiz"
    /\ req.body.quiz_category = [given |-> TRUE, id |-> 0]
    /\ req.body.previous_questions # <<>>
    /\ \E q \in questions : HasCategory(q, 0)
    /\ IsQuestion(resp.question)
    /\ resp.question.category = JInt(1)

\* the ids of the pool the quiz client started with (the store does not
\* change while a quiz is played)
StartPool == Ids(QuizPool([previous_questions |-> <<>>, quiz_category |-> quiz.category]))

QuizLoopSafe ==
    quiz.state \in {"playing", "done"} =>
        LET prev == quiz.previous
        IN  /\ \A i, j \in 1..Len(prev) : prev[i] = prev[j] => i = j
            /\ {prev[i] : i \in 1..Len(prev)} \subseteq StartPool
            /\ quiz.state = "playing" => quiz.calls = Len(prev)
            /\ quiz.state = "done" =>
                  /\ {prev[i] : i \in 1..Len(prev)} = StartPool
                  /\ quiz.calls = Cardinality(StartPool) + 1
                  /\ ~IsQuestion(resp.question)

\* C3: the quiz loop ends with question = null; until then no question is
\* returned twice, every question of the pool is returned once, and null
\* is the answer to call N + 1 for a pool of N questions.
C3_QuizLoopTerminates ==
    /\ []QuizLoopSafe
    /\ (quiz.state = "playing") ~> (quiz.state = "done")

\* a quiz of category 1 over a pool of two or more questions has ended
C3_Witness ==
    /\ quiz.state = "done"
    /\ quiz.category = [given |-> TRUE, id |-> 1]
    /\ Len(quiz.previous) >= 2
    /\ quiz.calls = Len(quiz.previous) + 1

C4_DeleteStep ==
    req'.op = "delete_question" =>
        LET X == req'.question_id
        IN  /\ categories' = categories
            /\ IF X \in Ids(questions)
               THEN /\ resp'.status = 200
                    /\ resp'.deleted = X
                    /\ questions' = {q \in questions : q.id # X}
               ELSE /\ resp'.status = 404
                    /\ questions' = questions
            /\ (req.op = "delete_question" /\ req.question_id = X /\ resp.status = 200)
                  => (resp'.status = 404 /\ questions' = questions)

\* C4: DELETE /questions/X of a stored X answers 200 with deleted = X and
\* removes that question alone; the DELETE of the same X that follows
\* answers 404 and changes nothing; DELETE of an absent id answers 404.
C4_DeleteOnceThenNotFound == [][C4_DeleteStep]_vars

\* a seeded question was deleted, and the next DELETE of it answered 404
C4_Witness ==
    /\ req.op = "delete_question"
    /\ req.question_id \in 1..MaxSeed
    /\ resp.status = 404
    /\ questions # {}

\* C5: POST /questions without one of the four keys answers 400, whatever
\* the other keys hold, and stores nothing.
C5_MissingKeyIsBadRequest ==
    [][(req'.op = "create_question" /\ ~(required_fields \subseteq DOMAIN req'.data))
          => (resp'.status = 400 /\ questions' = questions)]_vars

\* difficulty is missing and category is not a number: 400
C5_Witness ==
    /\ req.op = "create_question"
    /\ DOMAIN req.data = {"question", "answer", "category"}
    /\ req.data["category"] = JStr(<<"x">>)
    /\ resp.status = 400

\* the values the store rejects: a string where the column is a number
Rejected(data) == IsStr(data["category"]) \/ IsStr(data["difficulty"])

\* C6: POST /questions with the four keys and a value the store rejects
\* answers 422 and stores nothing.
C6_RejectedIsUnprocessable ==
    [][(/\ req'.op = "create_question"
        /\ required_fields \subseteq DOMAIN req'.data
        /\ Rejected(req'.data))
          => (resp'.status = 422 /\ questions' = questions)]_vars

C6_Witness ==
    /\ req.op = "create_question"
    /\ required_fields \subseteq DOMAIN req.data
    /\ req.data["difficulty"] = JStr(<<"x">>)
    /\ resp.status = 422

\* the question a create request submitted, listed under id X
Submitted(X, data) ==
    [id |-> X, question |-> data["question"], answer |-> data["answer"],
     category |-> data["category"], difficulty |-> data["difficulty"]]

C7_Listed ==
    (req.op = "create_question" /\ resp.status = 201) =>
        \E P \in 1..MaxPage :
            LET page == get_questions_response(JInt(P))
            IN  /\ page.status = 200
                /\ \E i \in 1..Len(page.questions) :
                      page.questions[i] = Submitted(resp.created, req.data)

C7_CreateStep ==
    /\ (req'.op = "create_question" /\ resp'.status = 201) =>
          /\ resp'.created \notin Ids(questions)
          /\ resp'.total_questions = Cardinality(questions')
          /\ resp'.total_questions = Cardinality(questions) + 1
    /\ (/\ req.op = "create_question" /\ resp.status = 201
        /\ req'.op = "delete_question" /\ req'.question_id = resp.created)
          => (resp'.status = 200 /\ resp'.deleted = resp.created)

\* C7: an accepted POST /questions answers 201 with a new id X and the count
\* of the questions after the insert; X is then listed by GET /questions
\* with the submitted fields, and DELETE /questions/X answers 200.
C7_CreateListDelete == []C7_Listed /\ [][C7_CreateStep]_vars

\* the created question is the only one of the third page
C7_Witness ==
    /\ req.op = "create_question"
    /\ resp.status = 201
    /\ Cardinality(questions) = 2 * PAGE_SIZE + 1
    /\ resp.total_questions = 2 * PAGE_SIZE + 1

\* the position of a question in ascending id order
Rank(q) == Cardinality({r \in questions : r.id < q.id}) + 1

\* C8: GET /questions?page=P (P >= 1, 1 by default) over n questions: for P
\* up to the last page, 200 with the questions at the positions
\* 10*(P-1)+1 .. min(10*P, n) of the ascending id order, total_questions = n
\* and current_category = null; past the last page, or with n = 0, 404.
C8_Pagination ==
    (req.op = "get_questions" /\ (IsInt(req.page) => req.page.n >= 1)) =>
        LET P == IF IsInt(req.page) THEN req.page.n ELSE 1
            n == Cardinality(questions)
            lo == 10 * (P - 1) + 1
            hi == IF 10 * P < n THEN 10 * P ELSE n
        IN  IF n > 0 /\ 10 * (P - 1) < n
            THEN /\ resp.status = 200
                 /\ Len(resp.questions) <= 10
                 /\ Len(resp.questions) = hi - lo + 1
                 /\ \A i \in 1..Len(resp.questions) :
                       \E q \in questions :
                           Rank(q) = lo + i - 1 /\ resp.questions[i] = format(q)
                 /\ resp.total_questions = n
                 /\ resp.current_category = JNull
            ELSE resp.status = 404

\* the second page is full and starts past a deleted id
C8_Witness ==
    /\ req.op = "get_questions"
    /\ req.page = JInt(2)
    /\ resp.status = 200
    /\ Len(resp.questions) = 10
    /\ resp.questions[1].id = 12
    /\ resp.total_questions = 20

\* the term occurs in the text, letter case aside
Contains(text, term) ==
    /\ IsStr(text)
    /\ \E i \in 0..(Len(text.s) - Len(term)) :
          \A j \in 1..Len(term) : Lower(text.s[i + j]) = Lower(term[j])

\* C9: POST /questions/search with a non-empty term answers 200 with exactly
\* the questions whose text contains the term, letter case aside, their
\* number and current_category = null; without a term, or with an empty
\* one, 400.
C9_SearchIsSubstring ==
    (req.op = "search_questions"
     /\ ("searchTerm" \in DOMAIN req.data => ~IsInt(req.data["searchTerm"]))) =>
        IF "searchTerm" \in DOMAIN req.data /\ IsStr(req.data["searchTerm"])
           /\ req.data["searchTerm"].s # <<>>
        THEN LET matches == {q \in questions :
                                Contains(q.question, req.data["searchTerm"].s)}
             IN  /\ resp.status = 200
                 /\ resp.questions = {format(q) : q \in matches}
                 /\ resp.total_questions = Cardinality(matches)
                 /\ resp.current_category = JNull
        ELSE resp.status = 400

\* C10: no stored question has a null question, answer, category or
\* difficulty.
C10_NoNullField ==
    \A q \in questions :
        /\ ~IsNull(q.question)
        /\ ~IsNull(q.answer)
        /\ ~IsNull(q.category)
        /\ ~IsNull(q.difficulty)

\* the DELETE requests for X, and those of them that are finished
RequestsFor(X) == {r \in Deleters : deletes[r].question_id = X /\ deletes[r].pc # "idle"}

Returned(X, status) == {r \in RequestsFor(X) : deletes[r].pc = "done" /\ deletes[r].status = status}

AllFinished(X) == RequestsFor(X) # {} /\ \A r \in RequestsFor(X) : deletes[r].pc = "done"

C11_Answers ==
    /\ \A r \in Deleters :
          deletes[r].pc = "done" => deletes[r].status \in {200, 404, 422}
    /\ \A X \in 1..MaxSeed :
          AllFinished(X) => (X \notin Ids(questions) /\ Returned(X, 200) # {})

C11_CommitStep ==
    \A r \in Deleters :
        (deletes[r].pc = "found" /\ deletes'[r].pc = "done")
            => /\ questions' \subseteq questions
               /\ \A q \in questions \ questions' : q.id = deletes[r].question_id

\* C11 (amended): under any interleaving of concurrent DELETE /questions/X
\* requests for a stored X whose lookup and delete are separate steps, every
\* request answers 200, 404 or 422 (never 500), at least one answers 200,
\* X is absent from the store once all of them are finished, and the delete
\* step of a request removes no question other than X.
C11_ConcurrentDelete == []C11_Answers /\ [][C11_CommitStep]_vars

\* two requests for question 1 both found it before either deleted it, both
\* are finished, one was answered 200 and the other 422
C11_Witness ==
    /\ Returned(1, 200) # {}
    /\ Returned(1, 422) # {}
    /\ AllFinished(1)
    /\ 1 \notin Ids(questions)

\* C11 as stated: at most one of the concurrent DELETE requests for X
\* answers 200.
C11_AtMostOneSuccess ==
    \A X \in 1..MaxSeed : Cardinality(Returned(X, 200)) <= 1

=============================================================================
